---- MODULE Spec2Model ----
(***************************************************************************)
(* driftwatcher: the dispatch pipeline (RunDriftDetection) and the drift   *)
(* comparison engine (DefaultDriftChecker.CompareStates).                  *)
(***************************************************************************)
EXTENDS Integers, Sequences, FiniteSets, TLC

\* ------------------------------------------------------------------ bounds
\* most resources in a state file
MaxFileRes == 2

\* most WriteReport calls on one FileReporter
MaxWrites == 3

\* most reservations in a DescribeInstances answer
MaxReservations == 2

\* most instances in one reservation
MaxInstances == 2

\* longest resource list RetrieveResources hands to the pipeline
MaxResources == 6

\* longest resource list of the runs that compare 1 worker with 5
MaxBatch == 3

\* ------------------------------------------------------- program constants
\* maxWorker := 5: number of workers and capacity of the feed channel
maxWorker == 5

VARIABLES
    pc,          \* position of RunDriftDetection's own goroutine
    ret,         \* its return value: "none" (running), "nil", "err"
    parsed,      \* ParseStateFile returned without error
    retrieved,   \* RetrieveResources returned without error
    resources,   \* the slice RetrieveResources returned (resource ids)
    next,        \* index of the next resource the feed loop sends
    channel,     \* buffered channel of capacity maxWorker
    closed,      \* close(channel) has happened
    wg,          \* sync.WaitGroup counter
    receiving,   \* number of workers at `for resource := range channel`
    holding,     \* per resource: the call its worker is in ("no": not held)
    metaCalls,   \* InfrastructreMetadata invocations per resource
    cmpCalls,    \* CompareStates invocations per resource
    writeCalls,  \* WriteReport invocations per resource
    writeRets,   \* WriteReport returns (with or without error) per resource
    metaRes,     \* per resource: what InfrastructreMetadata returned
    cmpRes,      \* per resource: what CompareStates returned
    logs,        \* levels of the slog records of RunDriftDetection's own
                 \* goroutine, in order (the workers' records are not kept)
    cancelled,   \* ctx has been cancelled
    nWorkers,    \* value of the local maxWorker in this run
    fate,        \* per resource: what the provider and the engine answer
                 \* for it ("any": either answer)
    cmpLive,     \* per resource: the resource whose live resource was passed
                 \* to CompareStates with it (0: no call)
    writeReport  \* per resource: the report its worker passed to WriteReport,
                 \* as the <<live, desired>> pair it was computed from

pvars == <<pc, ret, parsed, retrieved, resources, next, channel, closed, wg, receiving,
           holding, metaCalls, cmpCalls, writeCalls, writeRets,
           metaRes, cmpRes, logs, cancelled, nWorkers, fate,
           cmpLive, writeReport>>

\* state of one call of DefaultDriftChecker.CompareStates
VARIABLES
    liveState,          \* argument: the live resource, or nil
    desiredState,       \* argument: the statemanager.StateResource
    attributesToTrack,  \* argument: the attribute keys to compare
    cpc,                \* position inside CompareStates
    idx,                \* position of the range loop in attributesToTrack
    overallDrift,       \* local overallDrift
    out,                \* the *DriftReport under construction / returned
    errOut,             \* the returned error
    reportRet           \* the returned *DriftReport: "nil", or "out" (points to out)

cvars == <<liveState, desiredState, attributesToTrack, cpc, idx,
           overallDrift, out, errOut, reportRet>>

\* state of one TerraformStateManager and of its caller
VARIABLES
    parserState,   \* t.parser.State: nil, or the last state ParseBytes stored
    heldContent,   \* the StateContent the caller keeps from a ParseStateFile
    parseFailed,   \* some ParseStateFile call on the manager has failed
    retrieval      \* the RetrieveResources call made with heldContent

mvars == <<parserState, heldContent, parseFailed, retrieval>>

\* state of one AWSProvider.HandleEC2Metadata call
VARIABLES
    describeOutput,  \* what ec2Client.DescribeInstances answers
    ec2Result        \* what HandleEC2Metadata returns

hvars == <<describeOutput, ec2Result>>

\* state of one EC2InfraInstance.AttributeValue call
VARIABLES
    ec2Instance,   \* the receiver's types.Instance
    ec2Attribute,  \* argument: the attribute name
    ec2Answer      \* the returned (string, error)

avars == <<ec2Instance, ec2Attribute, ec2Answer>>

\* state of one FileReporter and of its output file
VARIABLES
    file,        \* the file at OutputFile: whether it exists, and its lines
    lastWrite,   \* the last WriteReport call: its report, and whether it
                 \* returned nil
    prevWrite,   \* the WriteReport call before that
    nWrites      \* number of WriteReport calls made

fvars == <<file, lastWrite, prevWrite, nWrites>>

\* state of one CsvReporter.WriteReport call
VARIABLES
    csvReport,   \* argument: the report
    csvFile,     \* the file at outputFile: whether it exists, and its rows
    csvRet       \* the call's return: "none" (not returned), "nil", or
                 \* the error

kvars == <<csvReport, csvFile, csvRet>>

\* state of one ParseStateFile call, as far as RawState goes
VARIABLES
    stateFile,   \* the bytes of the state file
    rawState     \* StateContent.RawState of the returned content

rvars == <<stateFile, rawState>>

\* the components outside the pipeline and the comparison engine
ovars == <<mvars, hvars, avars, fvars, kvars, rvars>>

\* what the actions of one component leave alone
restM ==
    <<pvars, cvars, hvars, avars, fvars, kvars, rvars>>
restH ==
    <<pvars, cvars, mvars, avars, fvars, kvars, rvars>>
restA ==
    <<pvars, cvars, mvars, hvars, fvars, kvars, rvars>>
restF ==
    <<pvars, cvars, mvars, hvars, avars, kvars, rvars>>
restK ==
    <<pvars, cvars, mvars, hvars, avars, fvars, rvars>>
restR ==
    <<pvars, cvars, mvars, hvars, avars, fvars, kvars>>

vars == <<pvars, cvars, ovars>>

ResourceIds == 1..MaxResources

\* The worker goroutines are identical closures that capture no index: a
\* busy worker is identified by the resource it holds (holding), the others
\* are counted (receiving, and wg for those that have not exited).

\* what the provider and the engine may answer for a resource
Fates == {"any", "ok", "metaErr", "cmpErr"}

\* the state on entry of RunDriftDetection
RunEntry ==
    /\ pc = "parse"
    /\ ret = "none"
    /\ parsed = FALSE
    /\ retrieved = FALSE
    /\ resources = <<>>
    /\ next = 1
    /\ channel = <<>>
    /\ closed = FALSE
    /\ wg = 0
    /\ receiving = 0
    /\ holding = [r \in ResourceIds |-> "no"]
    /\ metaCalls = [r \in ResourceIds |-> 0]
    /\ cmpCalls = [r \in ResourceIds |-> 0]
    /\ writeCalls = [r \in ResourceIds |-> 0]
    /\ writeRets = [r \in ResourceIds |-> 0]
    /\ metaRes = [r \in ResourceIds |-> "none"]
    /\ cmpRes = [r \in ResourceIds |-> "none"]
    /\ logs = <<>>
    /\ cancelled = FALSE
    /\ cmpLive = [r \in ResourceIds |-> 0]
    /\ writeReport = [r \in ResourceIds |-> <<0, 0>>]

\* a run of the program as built (maxWorker := 5) with providers and
\* engines that may answer anything
PipelineInit ==
    /\ RunEntry
    /\ nWorkers = maxWorker
    /\ fate = [r \in ResourceIds |-> "any"]

\* mutant: the parse error is logged and execution goes on
ParseStateFileContinues ==
    /\ pc = "parse"
    /\ \E ok \in BOOLEAN :
         /\ parsed' = ok
         /\ IF ok THEN /\ pc' = "retrieve"
                       /\ ret' = ret
                       /\ logs' = logs
                 ELSE /\ pc' = "retrieve"
                      /\ ret' = ret
                      /\ logs' = Append(logs, "ERROR")
    /\ UNCHANGED <<retrieved, resources, next, channel, closed, wg, receiving, holding,
                   metaCalls, cmpCalls, writeCalls, writeRets,
                   metaRes, cmpRes>>
    /\ UNCHANGED <<cancelled, nWorkers, fate,
                   cmpLive, writeReport>>
    /\ UNCHANGED <<cvars, ovars>>

\* stateManager.ParseStateFile and the error return that follows it
ParseStateFile ==
    /\ pc = "parse"
    /\ \E ok \in BOOLEAN :
         /\ parsed' = ok
         /\ IF ok THEN /\ pc' = "retrieve"
                       /\ ret' = ret
                       /\ logs' = logs
                 ELSE /\ pc' = "done"
                      /\ ret' = "err"
                      /\ logs' = Append(logs, "ERROR")
    /\ UNCHANGED <<retrieved, resources, next, channel, closed, wg, receiving, holding,
                   metaCalls, cmpCalls, writeCalls, writeRets,
                   metaRes, cmpRes>>
    /\ UNCHANGED <<cancelled, nWorkers, fate,
                   cmpLive, writeReport>>
    /\ UNCHANGED <<cvars, ovars>>

\* mutant: the error of RetrieveResources is logged and swallowed
RetrieveResourcesSwallowsError ==
    /\ pc = "retrieve"
    /\ \E ok \in BOOLEAN, n \in 0..MaxResources :
         IF ~ok
         THEN /\ pc' = "done"
              /\ ret' = "nil"
              /\ retrieved' = FALSE
              /\ resources' = resources
              /\ logs' = Append(logs, "ERROR")
         ELSE /\ retrieved' = TRUE
              /\ resources' = [i \in 1..n |-> i]
              /\ IF n = 0 THEN /\ pc' = "done"
                               /\ ret' = "nil"
                               /\ logs' = Append(logs, "ERROR")
                         ELSE /\ pc' = "spawn"
                              /\ ret' = ret
                              /\ logs' = logs
    /\ UNCHANGED <<parsed, next, channel, closed, wg, receiving, holding,
                   metaCalls, cmpCalls, writeCalls, writeRets,
                   metaRes, cmpRes>>
    /\ UNCHANGED <<cancelled, nWorkers, fate,
                   cmpLive, writeReport>>
    /\ UNCHANGED <<cvars, ovars>>

\* stateManager.RetrieveResources, its error return and the empty-list return
RetrieveResources ==
    /\ pc = "retrieve"
    /\ \E ok \in BOOLEAN, n \in 0..MaxResources :
         IF ~ok
         THEN /\ pc' = "done"
              /\ ret' = "err"
              /\ retrieved' = FALSE
              /\ resources' = resources
              /\ logs' = Append(logs, "ERROR")
         ELSE /\ retrieved' = TRUE
              /\ resources' = [i \in 1..n |-> i]
              /\ IF n = 0 THEN /\ pc' = "done"
                               /\ ret' = "nil"
                               /\ logs' = Append(logs, "ERROR")
                         ELSE /\ pc' = "spawn"
                              /\ ret' = ret
                              /\ logs' = logs
    /\ UNCHANGED <<parsed, next, channel, closed, wg, receiving, holding,
                   metaCalls, cmpCalls, writeCalls, writeRets,
                   metaRes, cmpRes>>
    /\ UNCHANGED <<cancelled, nWorkers, fate,
                   cmpLive, writeReport>>
    /\ UNCHANGED <<cvars, ovars>>

\* for range maxWorker { wg.Add(1); go func() {...}() }
StartWorkers ==
    /\ pc = "spawn"
    /\ wg' = nWorkers
    /\ receiving' = nWorkers
    /\ pc' = "feed"
    /\ UNCHANGED <<ret, parsed, retrieved, resources, next, channel, closed, holding,
                   metaCalls, cmpCalls, writeCalls, writeRets,
                   metaRes, cmpRes>>
    /\ UNCHANGED <<logs, cancelled, nWorkers, fate,
                   cmpLive, writeReport>>
    /\ UNCHANGED <<cvars, ovars>>

\* mutant: the send never blocks (a channel without capacity limit)
FeedUnbounded ==
    /\ pc = "feed"
    /\ next <= Len(resources)
    /\ channel' = Append(channel, resources[next])
    /\ next' = next + 1
    /\ UNCHANGED <<pc, ret, parsed, retrieved, resources, closed, wg, receiving, holding,
                   metaCalls, cmpCalls, writeCalls, writeRets,
                   metaRes, cmpRes>>
    /\ UNCHANGED <<logs, cancelled, nWorkers, fate,
                   cmpLive, writeReport>>
    /\ UNCHANGED <<cvars, ovars>>

\* channel <- resource: blocks while the buffer holds maxWorker values
Feed ==
    /\ pc = "feed"
    /\ next <= Len(resources)
    /\ Len(channel) < nWorkers
    /\ channel' = Append(channel, resources[next])
    /\ next' = next + 1
    /\ UNCHANGED <<pc, ret, parsed, retrieved, resources, closed, wg, receiving, holding,
                   metaCalls, cmpCalls, writeCalls, writeRets,
                   metaRes, cmpRes>>
    /\ UNCHANGED <<logs, cancelled, nWorkers, fate,
                   cmpLive, writeReport>>
    /\ UNCHANGED <<cvars, ovars>>

\* mutant: the channel is never closed
CloseForgotten ==
    /\ pc = "feed"
    /\ next > Len(resources)
    /\ pc' = "wait"
    /\ UNCHANGED <<ret, parsed, retrieved, resources, next, channel, closed,
                   wg, receiving, holding, metaCalls, cmpCalls, writeCalls,
                   writeRets, metaRes, cmpRes>>
    /\ UNCHANGED <<logs, cancelled, nWorkers, fate,
                   cmpLive, writeReport>>
    /\ UNCHANGED <<cvars, ovars>>

\* close(channel), after the feed loop has sent the last resource
Close ==
    /\ pc = "feed"
    /\ next > Len(resources)
    /\ closed' = TRUE
    /\ pc' = "wait"
    /\ UNCHANGED <<ret, parsed, retrieved, resources, next, channel, wg, receiving,
                   holding, metaCalls, cmpCalls, writeCalls, writeRets,
                   metaRes, cmpRes>>
    /\ UNCHANGED <<logs, cancelled, nWorkers, fate,
                   cmpLive, writeReport>>
    /\ UNCHANGED <<cvars, ovars>>

\* mutant: RunDriftDetection returns without wg.Wait()
WaitSkipped ==
    /\ pc = "wait"
    /\ pc' = "done"
    /\ ret' = "nil"
    /\ logs' = Append(logs, "INFO")
    /\ UNCHANGED <<parsed, retrieved, resources, next, channel, closed, wg, receiving,
                   holding, metaCalls, cmpCalls, writeCalls, writeRets,
                   metaRes, cmpRes>>
    /\ UNCHANGED <<cancelled, nWorkers, fate,
                   cmpLive, writeReport>>
    /\ UNCHANGED <<cvars, ovars>>

\* wg.Wait() and the final return nil
Wait ==
    /\ pc = "wait"
    /\ wg = 0
    /\ pc' = "done"
    /\ ret' = "nil"
    /\ logs' = Append(logs, "INFO")
    /\ UNCHANGED <<parsed, retrieved, resources, next, channel, closed, wg, receiving,
                   holding, metaCalls, cmpCalls, writeCalls, writeRets,
                   metaRes, cmpRes>>
    /\ UNCHANGED <<cancelled, nWorkers, fate,
                   cmpLive, writeReport>>
    /\ UNCHANGED <<cvars, ovars>>

\* mutant: the worker that received goes on receiving while its call runs
ReceiveStaysIdle ==
    /\ receiving > 0
    /\ channel # <<>>
    /\ LET r == Head(channel) IN
         /\ holding' = [holding EXCEPT ![r] = "meta"]
         /\ metaCalls' = [metaCalls EXCEPT ![r] = @ + 1]
    /\ channel' = Tail(channel)
    /\ receiving' = receiving
    /\ UNCHANGED <<pc, ret, parsed, retrieved, resources, next, closed, wg,
                   cmpCalls, writeCalls, writeRets, metaRes, cmpRes>>
    /\ UNCHANGED <<logs, cancelled, nWorkers, fate,
                   cmpLive, writeReport>>
    /\ UNCHANGED <<cvars, ovars>>

\* for resource := range channel: a worker receives, then calls
\* platformProvider.InfrastructreMetadata for the received resource
Receive ==
    /\ receiving > 0
    /\ channel # <<>>
    /\ LET r == Head(channel) IN
         /\ holding' = [holding EXCEPT ![r] = "meta"]
         /\ metaCalls' = [metaCalls EXCEPT ![r] = @ + 1]
    /\ channel' = Tail(channel)
    /\ receiving' = receiving - 1
    /\ UNCHANGED <<pc, ret, parsed, retrieved, resources, next, closed, wg,
                   cmpCalls, writeCalls, writeRets, metaRes, cmpRes>>
    /\ UNCHANGED <<logs, cancelled, nWorkers, fate,
                   cmpLive, writeReport>>
    /\ UNCHANGED <<cvars, ovars>>

\* the range loop ends on a closed and drained channel; defer wg.Done()
WorkerExit ==
    /\ receiving > 0
    /\ channel = <<>>
    /\ closed
    /\ receiving' = receiving - 1
    /\ wg' = wg - 1
    /\ UNCHANGED <<pc, ret, parsed, retrieved, resources, next, channel, closed, holding,
                   metaCalls, cmpCalls, writeCalls, writeRets,
                   metaRes, cmpRes>>
    /\ UNCHANGED <<logs, cancelled, nWorkers, fate,
                   cmpLive, writeReport>>
    /\ UNCHANGED <<cvars, ovars>>

\* the results InfrastructreMetadata may give for resource r: error or not
MetaErrs(r) == IF fate[r] = "any" THEN BOOLEAN ELSE {fate[r] = "metaErr"}

\* the results CompareStates may give for resource r: error or not
CmpErrs(r) == IF fate[r] = "any" THEN BOOLEAN ELSE {fate[r] = "cmpErr"}

\* mutant: the CompareStates error is logged without `continue`, so the
\* worker goes on to WriteReport
MetadataReturnNoContinue(r) ==
    /\ holding[r] = "meta"
    /\ \E err \in MetaErrs(r), cerr \in CmpErrs(r) :
         IF err
         THEN /\ metaRes' = [metaRes EXCEPT ![r] = "err"]
              /\ holding' = [holding EXCEPT ![r] = "no"]
              /\ receiving' = receiving + 1
              /\ UNCHANGED <<cmpCalls, cmpRes, writeCalls>>
         ELSE /\ metaRes' = [metaRes EXCEPT ![r] = "ok"]
              /\ cmpCalls' = [cmpCalls EXCEPT ![r] = @ + 1]
              /\ cmpRes' = [cmpRes EXCEPT ![r] = IF cerr THEN "err" ELSE "ok"]
              /\ holding' = [holding EXCEPT ![r] = "write"]
              /\ writeCalls' = [writeCalls EXCEPT ![r] = @ + 1]
              /\ receiving' = receiving
    /\ UNCHANGED <<pc, ret, parsed, retrieved, resources, next, channel,
                   closed, wg, metaCalls, writeRets>>
    /\ LET infrastructureResource == r
       IN cmpLive' = IF cmpCalls'[r] > cmpCalls[r]
                     THEN [cmpLive EXCEPT ![r] = infrastructureResource]
                     ELSE cmpLive
    /\ writeReport' = IF writeCalls'[r] > writeCalls[r]
                       THEN [writeReport EXCEPT ![r] = <<cmpLive'[r], r>>]
                       ELSE writeReport
    /\ UNCHANGED <<logs, cancelled, nWorkers, fate>>
    /\ UNCHANGED <<cvars, ovars>>

\* mutant: a provider error ends the worker (return instead of continue)
MetadataReturnExitsOnError(r) ==
    /\ holding[r] = "meta"
    /\ \E err \in MetaErrs(r), cerr \in CmpErrs(r) :
         IF err
         THEN /\ metaRes' = [metaRes EXCEPT ![r] = "err"]
              /\ holding' = [holding EXCEPT ![r] = "no"]
              /\ wg' = wg - 1
              /\ UNCHANGED <<receiving, cmpCalls, cmpRes, writeCalls>>
         ELSE /\ metaRes' = [metaRes EXCEPT ![r] = "ok"]
              /\ cmpCalls' = [cmpCalls EXCEPT ![r] = @ + 1]
              /\ wg' = wg
              /\ IF cerr
                 THEN /\ cmpRes' = [cmpRes EXCEPT ![r] = "err"]
                      /\ holding' = [holding EXCEPT ![r] = "no"]
                      /\ receiving' = receiving + 1
                      /\ writeCalls' = writeCalls
                 ELSE /\ cmpRes' = [cmpRes EXCEPT ![r] = "ok"]
                      /\ holding' = [holding EXCEPT ![r] = "write"]
                      /\ writeCalls' = [writeCalls EXCEPT ![r] = @ + 1]
                      /\ receiving' = receiving
    /\ UNCHANGED <<pc, ret, parsed, retrieved, resources, next, channel,
                   closed, metaCalls, writeRets>>
    /\ LET infrastructureResource == r
       IN cmpLive' = IF cmpCalls'[r] > cmpCalls[r]
                     THEN [cmpLive EXCEPT ![r] = infrastructureResource]
                     ELSE cmpLive
    /\ writeReport' = IF writeCalls'[r] > writeCalls[r]
                       THEN [writeReport EXCEPT ![r] = <<cmpLive'[r], r>>]
                       ELSE writeReport
    /\ UNCHANGED <<logs, cancelled, nWorkers, fate>>
    /\ UNCHANGED <<cvars, ovars>>

\* mutant: the provider error is logged without `continue`, so the worker
\* goes on to CompareStates with the nil live resource
MetadataReturnIgnoresError(r) ==
    /\ holding[r] = "meta"
    /\ \E err \in MetaErrs(r), cerr \in CmpErrs(r) :
         /\ metaRes' = [metaRes EXCEPT ![r] = IF err THEN "err" ELSE "ok"]
         /\ cmpCalls' = [cmpCalls EXCEPT ![r] = @ + 1]
         /\ IF cerr
            THEN /\ cmpRes' = [cmpRes EXCEPT ![r] = "err"]
                 /\ holding' = [holding EXCEPT ![r] = "no"]
                 /\ receiving' = receiving + 1
                 /\ writeCalls' = writeCalls
            ELSE /\ cmpRes' = [cmpRes EXCEPT ![r] = "ok"]
                 /\ holding' = [holding EXCEPT ![r] = "write"]
                 /\ writeCalls' = [writeCalls EXCEPT ![r] = @ + 1]
                 /\ receiving' = receiving
    /\ UNCHANGED <<pc, ret, parsed, retrieved, resources, next, channel,
                   closed, wg, metaCalls, writeRets>>
    /\ LET infrastructureResource == r
       IN cmpLive' = IF cmpCalls'[r] > cmpCalls[r]
                     THEN [cmpLive EXCEPT ![r] = infrastructureResource]
                     ELSE cmpLive
    /\ writeReport' = IF writeCalls'[r] > writeCalls[r]
                       THEN [writeReport EXCEPT ![r] = <<cmpLive'[r], r>>]
                       ELSE writeReport
    /\ UNCHANGED <<logs, cancelled, nWorkers, fate>>
    /\ UNCHANGED <<cvars, ovars>>

\* mutant: infrastructureResource is one variable shared by all workers,
\* so the worker may pass on what another worker stored
MetadataReturnSharedLive(r) ==
    /\ holding[r] = "meta"
    /\ \E err \in MetaErrs(r), cerr \in CmpErrs(r) :
         IF err
         THEN /\ metaRes' = [metaRes EXCEPT ![r] = "err"]
              /\ holding' = [holding EXCEPT ![r] = "no"]
              /\ receiving' = receiving + 1
              /\ UNCHANGED <<cmpCalls, cmpRes, writeCalls>>
         ELSE /\ metaRes' = [metaRes EXCEPT ![r] = "ok"]
              /\ cmpCalls' = [cmpCalls EXCEPT ![r] = @ + 1]
              /\ IF cerr
                 THEN /\ cmpRes' = [cmpRes EXCEPT ![r] = "err"]
                      /\ holding' = [holding EXCEPT ![r] = "no"]
                      /\ receiving' = receiving + 1
                      /\ writeCalls' = writeCalls
                 ELSE /\ cmpRes' = [cmpRes EXCEPT ![r] = "ok"]
                      /\ holding' = [holding EXCEPT ![r] = "write"]
                      /\ writeCalls' = [writeCalls EXCEPT ![r] = @ + 1]
                      /\ receiving' = receiving
    /\ UNCHANGED <<pc, ret, parsed, retrieved, resources, next, channel, closed, wg,
                   metaCalls, writeRets>>
    /\ \E infrastructureResource \in
            {r} \cup {q \in ResourceIds : metaRes[q] = "ok"} :
          cmpLive' = IF cmpCalls'[r] > cmpCalls[r]
                     THEN [cmpLive EXCEPT ![r] = infrastructureResource]
                     ELSE cmpLive
    /\ writeReport' = IF writeCalls'[r] > writeCalls[r]
                       THEN [writeReport EXCEPT ![r] = <<cmpLive'[r], r>>]
                       ELSE writeReport
    /\ UNCHANGED <<logs, cancelled, nWorkers, fate>>
    /\ UNCHANGED <<cvars, ovars>>

\* InfrastructreMetadata returns to the worker holding r: on error log and
\* continue. Otherwise the worker calls driftChecker.CompareStates, which
\* is computation on the worker's own values and no suspension point: on
\* its error log and continue, otherwise call reporter.WriteReport.
\* resource, infrastructureResource and report are declared inside the
\* loop body of the goroutine's closure: each worker has its own
MetadataReturn(r) ==
    /\ holding[r] = "meta"
    /\ \E err \in MetaErrs(r), cerr \in CmpErrs(r) :
         IF err
         THEN /\ metaRes' = [metaRes EXCEPT ![r] = "err"]
              /\ holding' = [holding EXCEPT ![r] = "no"]
              /\ receiving' = receiving + 1
              /\ UNCHANGED <<cmpCalls, cmpRes, writeCalls>>
         ELSE /\ metaRes' = [metaRes EXCEPT ![r] = "ok"]
              /\ cmpCalls' = [cmpCalls EXCEPT ![r] = @ + 1]
              /\ IF cerr
                 THEN /\ cmpRes' = [cmpRes EXCEPT ![r] = "err"]
                      /\ holding' = [holding EXCEPT ![r] = "no"]
                      /\ receiving' = receiving + 1
                      /\ writeCalls' = writeCalls
                 ELSE /\ cmpRes' = [cmpRes EXCEPT ![r] = "ok"]
                      /\ holding' = [holding EXCEPT ![r] = "write"]
                      /\ writeCalls' = [writeCalls EXCEPT ![r] = @ + 1]
                      /\ receiving' = receiving
    /\ UNCHANGED <<pc, ret, parsed, retrieved, resources, next, channel, closed, wg,
                   metaCalls, writeRets>>
    /\ LET infrastructureResource == r
       IN cmpLive' = IF cmpCalls'[r] > cmpCalls[r]
                     THEN [cmpLive EXCEPT ![r] = infrastructureResource]
                     ELSE cmpLive
    /\ writeReport' = IF writeCalls'[r] > writeCalls[r]
                       THEN [writeReport EXCEPT ![r] = <<cmpLive'[r], r>>]
                       ELSE writeReport
    /\ UNCHANGED <<logs, cancelled, nWorkers, fate>>
    /\ UNCHANGED <<cvars, ovars>>

\* WriteReport returns to the worker holding r: on error log and continue;
\* with or without error the loop body ends here and the worker goes back
\* to the receive
WriteReturn(r) ==
    /\ holding[r] = "write"
    /\ \E err \in BOOLEAN :
         /\ writeRets' = [writeRets EXCEPT ![r] = @ + 1]
         /\ holding' = [holding EXCEPT ![r] = "no"]
         /\ receiving' = receiving + 1
    /\ UNCHANGED <<pc, ret, parsed, retrieved, resources, next, channel, closed, wg,
                   metaCalls, cmpCalls, writeCalls, metaRes, cmpRes>>
    /\ UNCHANGED <<logs, cancelled, nWorkers, fate,
                   cmpLive, writeReport>>
    /\ UNCHANGED <<cvars, ovars>>

\* the caller cancels ctx while RunDriftDetection runs. RunDriftDetection
\* and its workers pass ctx on to the provider, the engine and the reporter
\* and never read ctx.Done() or ctx.Err() themselves
Cancel ==
    /\ pc # "done"
    /\ ~cancelled
    /\ cancelled' = TRUE
    /\ UNCHANGED <<pc, ret, parsed, retrieved, resources, next, channel,
                   closed, wg, receiving, holding, metaCalls, cmpCalls,
                   writeCalls, writeRets, metaRes, cmpRes, logs, nWorkers,
                   fate, cmpLive, writeReport>>
    /\ UNCHANGED <<cvars, ovars>>

\* ------------------------------------------------ drift comparison engine
\* longest attributesToTrack slice
MaxAttrs == 2

\* attribute keys the caller may track
AttrNames == {"instance_type", "tags.Name"}

\* Go string values
Strings == {"", "t2.micro", "t2.medium"}

\* resource types
Types == {"aws_instance", "aws_s3_bucket"}

\* DriftReportStatus and DrfitItemValue constants
Match == "MATCH"
Drift == "DRIFT"
ResourceMissingInInfrastructure == "MISSING_IN_INFRASTRUCTURE"
AttributeValueChanged == "VALUE_CHANGED"
AttributeMissingInTerraform == "MISSING_IN_TERRAFORM"
AttributeMissingInInfrastructure == "MISSING_IN_INFRASTRUCTURE"

\* what an AttributeValue call hands back: (string, error)
Answer(v, e) == [val |-> v, err |-> e]

\* values of ResourceInstance.Attributes (map[string]any): strings, and
\* values that are no string (a number, a list, ...)
AnyValues == {[kind |-> "string", s |-> v] : v \in Strings}
             \cup {[kind |-> "other", s |-> ""]}

\* the Attributes maps: any set of keys, any values
AttributeMaps == UNION {[S -> AnyValues] : S \in SUBSET AttrNames}

\* the "id" attribute every instance of a state file carries
InstanceId == [kind |-> "string", s |-> "i-1"]

\* an Attributes map together with the id attribute
WithId(m) ==
    [a \in DOMAIN m \cup {"id"} |-> IF a = "id" THEN InstanceId ELSE m[a]]

\* the desired resources: no instance, or one instance
StateResources ==
    {[Name |-> "web", Type |-> "aws_instance", Instances |-> <<>>]}
    \cup {[Name |-> "web", Type |-> "aws_instance",
           Instances |-> <<[Attributes |-> WithId(m)]>>] :
              m \in AttributeMaps}

\* the live resources (provider.InfrastructureResourceI): a type and, for
\* every attribute, the answer of AttributeValue
LiveResources ==
    {[nil |-> FALSE, type |-> t, answers |-> f] :
        t \in Types,
        f \in [AttrNames -> {Answer(v, FALSE) : v \in Strings}
                            \cup {Answer("", TRUE)}]}

NilLive == [nil |-> TRUE, type |-> "", answers |-> << >>]

\* StateResource.ResourceType
ResourceType(s) == s.Type

\* mutant: a resource without instances answers the empty value, no error
AttributeValueNoInstanceIsEmpty(s, attribute) ==
    IF Len(s.Instances) = 0 THEN Answer("", FALSE)
    ELSE LET attrs == s.Instances[1].Attributes IN
         IF attribute \notin DOMAIN attrs THEN Answer("", FALSE)
         ELSE IF attrs[attribute].kind # "string" THEN Answer("", TRUE)
         ELSE Answer(attrs[attribute].s, FALSE)

\* mutant: a key that is not in the Attributes map is a lookup error
AttributeValueAbsentIsError(s, attribute) ==
    IF Len(s.Instances) = 0 THEN Answer("", TRUE)
    ELSE LET attrs == s.Instances[1].Attributes IN
         IF attribute \notin DOMAIN attrs THEN Answer("", TRUE)
         ELSE IF attrs[attribute].kind # "string" THEN Answer("", TRUE)
         ELSE Answer(attrs[attribute].s, FALSE)

\* StateResource.AttributeValue
AttributeValue(s, attribute) ==
    IF Len(s.Instances) = 0 THEN Answer("", TRUE)
    ELSE LET attrs == s.Instances[1].Attributes IN
         IF attribute \notin DOMAIN attrs THEN Answer("", FALSE)
         ELSE IF attrs[attribute].kind # "string" THEN Answer("", TRUE)
         ELSE Answer(attrs[attribute].s, FALSE)

\* InfrastructureResourceI.AttributeValue of a live resource
LiveAttributeValue(l, attribute) == l.answers[attribute]

\* the zero DriftReport (GeneratedAt, the wall clock, is left out)
NewReport ==
    [ResourceId |-> "", ResourceType |-> "", ResourceName |-> "",
     HasDrift |-> FALSE, DriftDetails |-> << >>, Status |-> ""]

\* mutant: a matching attribute sets overallDrift back to Match
ClassifyResetsOnMatch(tf, actual, overall) ==
    IF tf = "" /\ actual # ""
    THEN [DriftType |-> AttributeMissingInTerraform,
          overall |-> IF overall = Match THEN Drift ELSE overall]
    ELSE IF actual = "" /\ tf # ""
    THEN [DriftType |-> AttributeMissingInInfrastructure,
          overall |-> IF overall = Match THEN Drift ELSE overall]
    ELSE IF tf # actual
    THEN [DriftType |-> AttributeValueChanged,
          overall |-> IF overall = Match THEN Drift ELSE overall]
    ELSE [DriftType |-> Match, overall |-> Match]

\* mutant: the VALUE_CHANGED case leaves overallDrift alone
ClassifyForgetsOverall(tf, actual, overall) ==
    IF tf = "" /\ actual # ""
    THEN [DriftType |-> AttributeMissingInTerraform,
          overall |-> IF overall = Match THEN Drift ELSE overall]
    ELSE IF actual = "" /\ tf # ""
    THEN [DriftType |-> AttributeMissingInInfrastructure,
          overall |-> IF overall = Match THEN Drift ELSE overall]
    ELSE IF tf # actual
    THEN [DriftType |-> AttributeValueChanged, overall |-> overall]
    ELSE [DriftType |-> Match, overall |-> overall]

\* mutant: the two MISSING cases carry each other's constant
ClassifySwapped(tf, actual, overall) ==
    IF tf = "" /\ actual # ""
    THEN [DriftType |-> AttributeMissingInInfrastructure,
          overall |-> IF overall = Match THEN Drift ELSE overall]
    ELSE IF actual = "" /\ tf # ""
    THEN [DriftType |-> AttributeMissingInTerraform,
          overall |-> IF overall = Match THEN Drift ELSE overall]
    ELSE IF tf # actual
    THEN [DriftType |-> AttributeValueChanged,
          overall |-> IF overall = Match THEN Drift ELSE overall]
    ELSE [DriftType |-> Match, overall |-> overall]

\* the switch of the loop body: the item's DriftType and the new overallDrift
Classify(tf, actual, overall) ==
    IF tf = "" /\ actual # ""
    THEN [DriftType |-> AttributeMissingInTerraform,
          overall |-> IF overall = Match THEN Drift ELSE overall]
    ELSE IF actual = "" /\ tf # ""
    THEN [DriftType |-> AttributeMissingInInfrastructure,
          overall |-> IF overall = Match THEN Drift ELSE overall]
    ELSE IF tf # actual
    THEN [DriftType |-> AttributeValueChanged,
          overall |-> IF overall = Match THEN Drift ELSE overall]
    ELSE [DriftType |-> Match, overall |-> overall]

AttrSeqs == UNION {[1..n -> AttrNames] : n \in 0..MaxAttrs}

\* no call of CompareStates under way
CompareIdle ==
    /\ liveState = NilLive
    /\ desiredState = [Name |-> "web", Type |-> "aws_instance",
                       Instances |-> << >>]
    /\ attributesToTrack = << >>
    /\ cpc = "idle"
    /\ idx = 0
    /\ overallDrift = ""
    /\ out = NewReport
    /\ errOut = "none"
    /\ reportRet = "none"

\* a call of CompareStates with any arguments
CompareInit ==
    /\ liveState \in LiveResources \cup {NilLive}
    /\ desiredState \in StateResources
    /\ attributesToTrack \in AttrSeqs
    /\ cpc = "call"
    /\ idx = 0
    /\ overallDrift = ""
    /\ out = NewReport
    /\ errOut = "none"
    /\ reportRet = "none"

\* mutant: the nil path uses the wrong status constant
CompareStatesEntryWrongStatus ==
    /\ cpc = "call"
    /\ IF liveState.nil
       THEN /\ out' = [NewReport EXCEPT
                          !.Status = AttributeMissingInTerraform,
                          !.HasDrift = TRUE]
            /\ errOut' = "nil"
            /\ reportRet' = "out"
            /\ cpc' = "returned"
            /\ UNCHANGED <<idx, overallDrift>>
       ELSE IF liveState.type # ResourceType(desiredState)
       THEN /\ out' = NewReport
            /\ errOut' = "resource type mismatch"
            /\ reportRet' = "out"
            /\ cpc' = "returned"
            /\ UNCHANGED <<idx, overallDrift>>
       ELSE /\ out' = [NewReport EXCEPT !.ResourceType = liveState.type]
            /\ overallDrift' = Match
            /\ idx' = 1
            /\ cpc' = "loop"
            /\ UNCHANGED <<errOut, reportRet>>
    /\ UNCHANGED <<liveState, desiredState, attributesToTrack>>
    /\ UNCHANGED <<pvars, ovars>>

\* mutant: the type-mismatch path returns nil, err
CompareStatesEntryNilOnMismatch ==
    /\ cpc = "call"
    /\ IF liveState.nil
       THEN /\ out' = [NewReport EXCEPT
                          !.Status = ResourceMissingInInfrastructure,
                          !.HasDrift = TRUE]
            /\ errOut' = "nil"
            /\ reportRet' = "out"
            /\ cpc' = "returned"
            /\ UNCHANGED <<idx, overallDrift>>
       ELSE IF liveState.type # ResourceType(desiredState)
       THEN /\ out' = NewReport
            /\ errOut' = "resource type mismatch"
            /\ reportRet' = "nil"
            /\ cpc' = "returned"
            /\ UNCHANGED <<idx, overallDrift>>
       ELSE /\ out' = [NewReport EXCEPT !.ResourceType = liveState.type]
            /\ overallDrift' = Match
            /\ idx' = 1
            /\ cpc' = "loop"
            /\ UNCHANGED <<errOut, reportRet>>
    /\ UNCHANGED <<liveState, desiredState, attributesToTrack>>
    /\ UNCHANGED <<pvars, ovars>>

\* CompareStates up to the loop: the nil check, the type check
CompareStatesEntry ==
    /\ cpc = "call"
    /\ IF liveState.nil
       THEN /\ out' = [NewReport EXCEPT
                          !.Status = ResourceMissingInInfrastructure,
                          !.HasDrift = TRUE]
            /\ errOut' = "nil"
            /\ reportRet' = "out"
            /\ cpc' = "returned"
            /\ UNCHANGED <<idx, overallDrift>>
       ELSE IF liveState.type # ResourceType(desiredState)
       THEN /\ out' = NewReport
            /\ errOut' = "resource type mismatch"
            /\ reportRet' = "out"
            /\ cpc' = "returned"
            /\ UNCHANGED <<idx, overallDrift>>
       ELSE /\ out' = [NewReport EXCEPT !.ResourceType = liveState.type]
            /\ overallDrift' = Match
            /\ idx' = 1
            /\ cpc' = "loop"
            /\ UNCHANGED <<errOut, reportRet>>
    /\ UNCHANGED <<liveState, desiredState, attributesToTrack>>
    /\ UNCHANGED <<pvars, ovars>>

\* mutant: a desired-side lookup error is logged without `continue`
CompareStatesAttributeNoSkip ==
    /\ cpc = "loop"
    /\ idx <= Len(attributesToTrack)
    /\ LET attribute == attributesToTrack[idx]
           live == LiveAttributeValue(liveState, attribute)
           desired == AttributeValue(desiredState, attribute)
           c == Classify(desired.val, live.val, overallDrift)
       IN IF live.err
          THEN UNCHANGED <<out, overallDrift>>
          ELSE /\ out' = [out EXCEPT !.DriftDetails =
                            Append(@, [Field |-> attribute,
                                       TerraformValue |-> desired.val,
                                       ActualValue |-> live.val,
                                       DriftType |-> c.DriftType])]
               /\ overallDrift' = c.overall
    /\ idx' = idx + 1
    /\ UNCHANGED <<liveState, desiredState, attributesToTrack, cpc, errOut,
                   reportRet>>
    /\ UNCHANGED <<pvars, ovars>>

\* mutant: the item is put in front of DriftDetails
CompareStatesAttributePrepends ==
    /\ cpc = "loop"
    /\ idx <= Len(attributesToTrack)
    /\ LET attribute == attributesToTrack[idx]
           live == LiveAttributeValue(liveState, attribute)
           desired == AttributeValue(desiredState, attribute)
           c == Classify(desired.val, live.val, overallDrift)
       IN IF live.err \/ desired.err
          THEN UNCHANGED <<out, overallDrift>>
          ELSE /\ out' = [out EXCEPT !.DriftDetails =
                            <<[Field |-> attribute,
                               TerraformValue |-> desired.val,
                               ActualValue |-> live.val,
                               DriftType |-> c.DriftType]>> \o @]
               /\ overallDrift' = c.overall
    /\ idx' = idx + 1
    /\ UNCHANGED <<liveState, desiredState, attributesToTrack, cpc, errOut,
                   reportRet>>
    /\ UNCHANGED <<pvars, ovars>>

\* one iteration of for _, attribute := range attributesToTrack
CompareStatesAttribute ==
    /\ cpc = "loop"
    /\ idx <= Len(attributesToTrack)
    /\ LET attribute == attributesToTrack[idx]
           live == LiveAttributeValue(liveState, attribute)
           desired == AttributeValue(desiredState, attribute)
           c == Classify(desired.val, live.val, overallDrift)
       IN IF live.err \/ desired.err
          THEN UNCHANGED <<out, overallDrift>>
          ELSE /\ out' = [out EXCEPT !.DriftDetails =
                            Append(@, [Field |-> attribute,
                                       TerraformValue |-> desired.val,
                                       ActualValue |-> live.val,
                                       DriftType |-> c.DriftType])]
               /\ overallDrift' = c.overall
    /\ idx' = idx + 1
    /\ UNCHANGED <<liveState, desiredState, attributesToTrack, cpc, errOut,
                   reportRet>>
    /\ UNCHANGED <<pvars, ovars>>

\* mutant: HasDrift is taken from the presence of items
CompareStatesReturnHasDriftFromDetails ==
    /\ cpc = "loop"
    /\ idx > Len(attributesToTrack)
    /\ out' = [out EXCEPT !.Status = overallDrift,
                          !.HasDrift = (Len(out.DriftDetails) > 0)]
    /\ errOut' = "nil"
    /\ reportRet' = "out"
    /\ cpc' = "returned"
    /\ UNCHANGED <<liveState, desiredState, attributesToTrack, idx,
                   overallDrift>>
    /\ UNCHANGED <<pvars, ovars>>

\* after the loop: out.Status, out.HasDrift, return out, nil
CompareStatesReturn ==
    /\ cpc = "loop"
    /\ idx > Len(attributesToTrack)
    /\ out' = [out EXCEPT !.Status = overallDrift,
                          !.HasDrift = (overallDrift # Match)]
    /\ errOut' = "nil"
    /\ reportRet' = "out"
    /\ cpc' = "returned"
    /\ UNCHANGED <<liveState, desiredState, attributesToTrack, idx,
                   overallDrift>>
    /\ UNCHANGED <<pvars, ovars>>

\* ---------------------------------------------- Terraform state manager
\* resource names in state files
ResourceNames == {"web", "db"}

\* a resource of a state file: the fields that tell resources apart
FileResources == [Type : Types, Name : ResourceNames]

\* the valid state files: TerraformState.Resources, in file order
StateFiles == UNION {[1..n -> FileResources] : n \in 0..MaxFileRes}

\* StateParser.State after NewStateParser()
NilState == [nil |-> TRUE, Resources |-> << >>]

\* ConvertTerraformStateToStateContent: the resources are copied one by one,
\* in order, into StateContent.Resource
ConvertTerraformStateToStateContent(tfState) ==
    [Resource |-> [i \in 1..Len(tfState.Resources) |->
                     [Type |-> tfState.Resources[i].Type,
                      Name |-> tfState.Resources[i].Name]]]

\* StateParser.GetResourcesByType: the resources of p.State of the given
\* type, in order; nil (no resources) when p.State is nil
GetResourcesByType(state, resourceType) ==
    IF state.nil THEN << >>
    ELSE SelectSeq(state.Resources, LAMBDA res : res.Type = resourceType)

\* a manager from NewTerraformManager(), and a caller without content
ManagerNew ==
    /\ parserState = NilState
    /\ heldContent = [has |-> FALSE, content |-> [Resource |-> << >>]]
    /\ parseFailed = FALSE
    /\ retrieval = [called |-> FALSE, resourceType |-> "", resources |-> << >>]

\* TerraformStateManager.ParseStateFile on some path: when os.Stat, ParseFile
\* or json.Unmarshal fails, p.State keeps its value; otherwise ParseBytes
\* stores the new state in p.State and the converted content is returned,
\* which the caller keeps or drops
ManagerParseStateFile ==
    /\ ~retrieval.called
    /\ \E f \in StateFiles, ok \in BOOLEAN, keep \in BOOLEAN :
         IF ~ok
         THEN /\ parseFailed' = TRUE
              /\ UNCHANGED <<parserState, heldContent>>
         ELSE /\ parserState' = [nil |-> FALSE, Resources |-> f]
              /\ heldContent' =
                   IF keep
                   THEN [has |-> TRUE,
                         content |->
                            ConvertTerraformStateToStateContent(parserState')]
                   ELSE heldContent
              /\ UNCHANGED parseFailed
    /\ UNCHANGED retrieval
    /\ UNCHANGED restM

\* TerraformStateManager.RetrieveResources(ctx, content, resourceType) with
\* the content the caller holds: content is not read, the result is
\* t.parser.GetResourcesByType(resourceType)
ManagerRetrieveResources ==
    /\ ~retrieval.called
    /\ heldContent.has
    /\ \E resourceType \in Types :
         retrieval' = [called |-> TRUE,
                       resourceType |-> resourceType,
                       resources |->
                          GetResourcesByType(parserState, resourceType)]
    /\ UNCHANGED <<parserState, heldContent, parseFailed>>
    /\ UNCHANGED restM

\* ------------------------------------------------------- AWS provider
\* EC2 instance ids
InstanceIds == {"i-1", "i-2"}

\* types.Reservation: its Instances
Reservations == UNION {[1..n -> InstanceIds] : n \in 0..MaxInstances}

\* what DescribeInstances can answer: an error, or a list of reservations
DescribeOutputs ==
    {[err |-> TRUE, Reservations |-> << >>]} \cup
    {[err |-> FALSE, Reservations |-> rs] :
        rs \in UNION {[1..n -> Reservations] : n \in 0..MaxReservations}}

\* no HandleEC2Metadata call under way
HandleIdle ==
    /\ describeOutput = [err |-> TRUE, Reservations |-> << >>]
    /\ ec2Result = [returned |-> FALSE, panicked |-> FALSE,
                    instance |-> "nil", err |-> ""]

\* a HandleEC2Metadata call whose DescribeInstances request is answered
HandleInit ==
    /\ describeOutput \in DescribeOutputs
    /\ ec2Result = [returned |-> FALSE, panicked |-> FALSE,
                    instance |-> "nil", err |-> ""]

\* AWSProvider.HandleEC2Metadata after DescribeInstances has answered.
\* output.Reservations[0].Instances[0] on a reservation without instances
\* is an index out of range: the goroutine panics and nothing is returned
HandleEC2Metadata ==
    /\ ~ec2Result.returned /\ ~ec2Result.panicked
    /\ ec2Result' =
         IF describeOutput.err
         THEN [returned |-> TRUE, panicked |-> FALSE, instance |-> "nil",
               err |-> "Failed to describe ec2 instance"]
         ELSE IF Len(describeOutput.Reservations) = 0
         THEN [returned |-> TRUE, panicked |-> FALSE, instance |-> "nil",
               err |-> "EC2 resource with filters is not running"]
         ELSE IF Len(describeOutput.Reservations) # 1
         THEN [returned |-> TRUE, panicked |-> FALSE, instance |-> "nil",
               err |-> "EC2 resource with id  returns duplicate result"]
         ELSE IF Len(describeOutput.Reservations[1]) = 0
         THEN [returned |-> FALSE, panicked |-> TRUE, instance |-> "nil",
               err |-> ""]
         ELSE [returned |-> TRUE, panicked |-> FALSE,
               instance |-> describeOutput.Reservations[1][1],
               err |-> "nil"]
    /\ UNCHANGED describeOutput
    /\ UNCHANGED restH

\* --------------------------------------------------- EC2 live resource
\* the attribute names the README lists as supported
DocumentedAttributes ==
    {"ami", "instance_type", "instance_id", "key_name", "availability_zone",
     "tenancy", "monitoring", "cpu_core_count", "cpu_thread_per_core",
     "ebs_optimized",
     "security_group_ids", "subnet_id", "associate_public_ip_address",
     "private_ip", "private_dns_name", "public_ip", "public_dns_name",
     "source_dest_check", "iam_instance_id", "iam_instance_arn",
     "root_block_device", "ebs_block_device", "block_device_name",
     "volume_id", "volume_size", "volume_type", "encrypted",
     "delete_on_termination",
     "metadata_options", "user_data", "user_data_base64",
     "instance_state"}

\* the security-group attribute constants SGDescription .. SGVPCID
SecurityGroupAttributes ==
    {"description", "egress", "ingress", "name", "vpc_id"}

\* the names AttributeValue is called with: the documented ones, the
\* security-group ones, two tag keys and two names that are not attributes
EC2AttributeNames ==
    DocumentedAttributes \cup SecurityGroupAttributes
       \cup {"tags.Name", "tags.Env", "", "instance_typo"}

\* types.Instance: the optional parts that AttributeValue tests for nil or
\* emptiness; the scalar fields have fixed values
EC2Instances ==
    [Placement : BOOLEAN, CpuOptions : BOOLEAN, NetworkInterfaces : BOOLEAN,
     MetadataOptions : BOOLEAN, State : BOOLEAN, RootDevice : BOOLEAN,
     Tags : SUBSET {"Name"}]

\* strconv.FormatBool
FormatBool(b) == IF b THEN "true" ELSE "false"

\* strings.HasPrefix(attribute, "tags.") for the names of EC2AttributeNames
HasTagsPrefix(attribute) == attribute \in {"tags.Name", "tags.Env"}

\* strings.TrimPrefix(attribute, "tags.") for the names with that prefix
TagName(attribute) == IF attribute = "tags.Name" THEN "Name" ELSE "Env"

\* EC2InfraInstance.AttributeValue: the switch over the attribute name
EC2AttributeValue(e, attribute) ==
    CASE attribute = "ami" -> Answer("ami-1", FALSE)
      [] attribute = "instance_type" -> Answer("t2.micro", FALSE)
      [] attribute = "instance_id" -> Answer("i-1", FALSE)
      [] attribute = "key_name" -> Answer("key", FALSE)
      [] attribute = "availability_zone" ->
            Answer(IF e.Placement THEN "us-east-1a" ELSE "", FALSE)
      [] attribute = "tenancy" ->
            Answer(IF e.Placement THEN "default" ELSE "", FALSE)
      [] attribute = "cpu_core_count" ->
            Answer(IF e.CpuOptions THEN "2" ELSE "0", FALSE)
      [] attribute = "cpu_thread_per_core" ->
            Answer(IF e.CpuOptions THEN "1" ELSE "0", FALSE)
      [] attribute = "ebs_optimized" -> Answer(FormatBool(FALSE), FALSE)
      [] attribute = "security_group_ids" -> Answer("sg-1,sg-2", FALSE)
      [] attribute = "subnet_id" -> Answer("subnet-1", FALSE)
      [] attribute = "associate_public_ip_address" ->
            Answer(FormatBool(e.NetworkInterfaces), FALSE)
      [] attribute = "private_ip" -> Answer("10.0.0.1", FALSE)
      [] attribute = "private_dns_name" -> Answer("ip-10-0-0-1", FALSE)
      [] attribute = "public_ip" -> Answer("", FALSE)
      [] attribute = "public_dns_name" -> Answer("", FALSE)
      [] attribute = "source_dest_check" ->
            Answer(FormatBool(TRUE), FALSE)
      [] attribute = "root_block_device" ->
            Answer(IF e.RootDevice THEN "{\"VolumeId\":\"vol-1\"}" ELSE "",
                   FALSE)
      [] attribute = "metadata_options" ->
            Answer(IF e.MetadataOptions THEN "{\"HttpTokens\":\"required\"}"
                                        ELSE "", FALSE)
      [] attribute = "instance_state" ->
            Answer(IF e.State THEN "running" ELSE "", FALSE)
      [] OTHER ->
            IF HasTagsPrefix(attribute)
            THEN Answer(IF TagName(attribute) \in e.Tags THEN "web" ELSE "",
                        FALSE)
            ELSE Answer("", TRUE)

\* no AttributeValue call on a live EC2 instance under way
EC2Idle ==
    /\ ec2Instance = [Placement |-> FALSE, CpuOptions |-> FALSE,
                      NetworkInterfaces |-> FALSE, MetadataOptions |-> FALSE,
                      State |-> FALSE, RootDevice |-> FALSE, Tags |-> {}]
    /\ ec2Attribute = ""
    /\ ec2Answer = [called |-> FALSE, val |-> "", err |-> FALSE]

\* a call of AttributeValue, for every instance and attribute name
EC2Init ==
    /\ ec2Instance \in EC2Instances
    /\ ec2Attribute \in EC2AttributeNames
    /\ ec2Answer = [called |-> FALSE, val |-> "", err |-> FALSE]

\* the call returns
EC2AttributeValueReturn ==
    /\ ~ec2Answer.called
    /\ LET a == EC2AttributeValue(ec2Instance, ec2Attribute)
       IN ec2Answer' = [called |-> TRUE, val |-> a.val, err |-> a.err]
    /\ UNCHANGED <<ec2Instance, ec2Attribute>>
    /\ UNCHANGED restA

\* ----------------------------------------------------------- FileReporter
\* DriftItem values of a report, one per position
ReportItems(n) ==
    [i \in 1..n |->
       [Field |-> IF i % 2 = 1 THEN "instance_type" ELSE "tags.Name",
        TerraformValue |-> "t2.micro",
        ActualValue |-> "t2.medium",
        DriftType |-> AttributeValueChanged]]

\* the reports handed to a reporter
Reports ==
    {[ResourceId |-> id, ResourceType |-> "aws_instance",
      ResourceName |-> "", HasDrift |-> n > 0,
      DriftDetails |-> ReportItems(n),
      Status |-> IF n > 0 THEN Drift ELSE Match] :
        id \in {"", "i-1"}, n \in 0..MaxAttrs}

\* one line of indented JSON: two spaces per nesting depth, then the text
\* (a key with its value, or a bracket)
Line(depth, key, val) == [indent |-> 2 * depth, key |-> key, val |-> val]

\* a string field with omitempty
OmitEmpty(key, val) ==
    IF val = "" THEN << >> ELSE <<Line(1, key, val)>>

\* the lines of the drift_details array elements
RECURSIVE ItemLines(_, _)
ItemLines(items, i) ==
    IF i > Len(items) THEN << >>
    ELSE <<Line(2, "{", ""),
           Line(3, "field", items[i].Field),
           Line(3, "terraform_value", items[i].TerraformValue),
           Line(3, "actual_value", items[i].ActualValue),
           Line(3, "drift_type", items[i].DriftType),
           Line(2, "}", "")>> \o ItemLines(items, i + 1)

\* json.MarshalIndent(report, "", "  ") with the struct tags of DriftReport
MarshalIndent(report) ==
    <<Line(0, "{", "")>>
    \o OmitEmpty("resource_id", report.ResourceId)
    \o OmitEmpty("resource_type", report.ResourceType)
    \o OmitEmpty("resource_nae", report.ResourceName)
    \o (IF report.HasDrift THEN <<Line(1, "has_drift", "true")>> ELSE << >>)
    \o (IF Len(report.DriftDetails) = 0 THEN << >>
        ELSE <<Line(1, "drift_details", "[")>>
             \o ItemLines(report.DriftDetails, 1)
             \o <<Line(1, "]", "")>>)
    \o <<Line(1, "generated_at", "2023-02-20T14:30:00Z")>>
    \o OmitEmpty("status", report.Status)
    \o <<Line(0, "}", "")>>

\* a call that has not been made
NoWrite == [made |-> FALSE, ok |-> FALSE, report |-> << >>]

\* a reporter from NewFileReporter(path) whose file does not exist yet
FileInit ==
    /\ file = [exists |-> FALSE, data |-> << >>]
    /\ lastWrite = NoWrite
    /\ prevWrite = NoWrite
    /\ nWrites = 0

\* what a failed os.WriteFile can leave behind: the old file when the open
\* fails, otherwise a truncated file that is empty or holds the new bytes
\* short of their end
AfterFailedWrite(old, bytes) ==
    {old} \cup {[exists |-> TRUE, data |-> SubSeq(bytes, 1, k)] :
                   k \in {0, Len(bytes) - 1}}

\* mutant: the file is opened for appending
FileWriteReportAppends ==
    /\ nWrites < MaxWrites
    /\ \E report \in Reports, outcome \in {"ok", "mkdir", "write"} :
         LET reportBytes == MarshalIndent(report) IN
         /\ CASE outcome = "mkdir" -> file' = file
              [] outcome = "write" ->
                    file' \in AfterFailedWrite(file, reportBytes)
              [] outcome = "ok" ->
                    file' = [exists |-> TRUE,
                             data |-> file.data \o reportBytes]
         /\ lastWrite' = [made |-> TRUE, ok |-> outcome = "ok",
                          report |-> report]
    /\ prevWrite' = lastWrite
    /\ nWrites' = nWrites + 1
    /\ UNCHANGED restF

\* FileReporter.WriteReport: os.MkdirAll, json.MarshalIndent (which cannot
\* fail on a DriftReport), os.WriteFile, which creates or truncates the
\* file and writes the bytes
FileWriteReport ==
    /\ nWrites < MaxWrites
    /\ \E report \in Reports, outcome \in {"ok", "mkdir", "write"} :
         LET reportBytes == MarshalIndent(report) IN
         /\ CASE outcome = "mkdir" -> file' = file
              [] outcome = "write" ->
                    file' \in AfterFailedWrite(file, reportBytes)
              [] outcome = "ok" ->
                    file' = [exists |-> TRUE, data |-> reportBytes]
         /\ lastWrite' = [made |-> TRUE, ok |-> outcome = "ok",
                          report |-> report]
    /\ prevWrite' = lastWrite
    /\ nWrites' = nWrites + 1
    /\ UNCHANGED restF

\* ------------------------------------------------------------ CsvReporter
\* the reports handed to a CsvReporter: HasDrift, Status and DriftDetails
\* in every combination
CsvReports ==
    {[ResourceId |-> id, ResourceType |-> "aws_instance",
      ResourceName |-> "", HasDrift |-> hd,
      DriftDetails |-> ReportItems(n), Status |-> st] :
        id \in {"", "i-1"}, hd \in BOOLEAN, st \in {"", Match, Drift},
        n \in 0..MaxAttrs}

\* the header row
CsvHeader ==
    <<"GeneratedAt", "ResourceId", "ResourceType", "ResourceName",
      "HasDrift", "ReportStatus", "DriftField", "TerraformValue",
      "ActualValue", "DriftType">>

\* the six report columns that start every data row
ReportColumns(report) ==
    <<"2023-01-15T10:00:00Z", report.ResourceId, report.ResourceType,
      report.ResourceName, FormatBool(report.HasDrift), report.Status>>

\* the summary row: empty item columns
SummaryRow(report) == ReportColumns(report) \o <<"", "", "", "">>

\* the row of one DriftItem
ItemRow(report, item) ==
    ReportColumns(report)
       \o <<item.Field, item.TerraformValue, item.ActualValue,
            item.DriftType>>

\* no WriteReport call on a CsvReporter under way
CsvIdle ==
    /\ csvReport = [ResourceId |-> "", ResourceType |-> "aws_instance",
                    ResourceName |-> "", HasDrift |-> FALSE,
                    DriftDetails |-> << >>, Status |-> ""]
    /\ csvFile = [exists |-> FALSE, rows |-> << >>]
    /\ csvRet = "none"

\* a WriteReport call, for every report, on a path without file or with a
\* file left by an earlier call
CsvInit ==
    /\ csvReport \in CsvReports
    /\ csvFile \in {[exists |-> FALSE, rows |-> << >>],
                    [exists |-> TRUE, rows |-> <<CsvHeader>>]}
    /\ csvRet = "none"

\* mutant: the summary row is written only when the report has no items
CsvWriteReportSummaryWhenEmpty ==
    /\ csvRet = "none"
    /\ \E outcome \in {"ok", "mkdir", "create"} :
         CASE outcome = "mkdir" ->
                 /\ csvRet' = "failed to create output directory"
                 /\ csvFile' = csvFile
           [] outcome = "create" ->
                 /\ csvRet' = "failed to create CSV output file"
                 /\ csvFile' = csvFile
           [] outcome = "ok" ->
                 /\ csvRet' = "nil"
                 /\ csvFile' =
                      [exists |-> TRUE,
                       rows |->
                         <<CsvHeader>> \o
                         (IF Len(csvReport.DriftDetails) = 0
                          THEN <<SummaryRow(csvReport)>>
                          ELSE [i \in 1..Len(csvReport.DriftDetails) |->
                                  ItemRow(csvReport,
                                          csvReport.DriftDetails[i])])]
    /\ UNCHANGED csvReport
    /\ UNCHANGED restK

\* CsvReporter.WriteReport: os.MkdirAll, os.Create (which truncates), the
\* header, then the summary row or the item rows, flushed on return
CsvWriteReport ==
    /\ csvRet = "none"
    /\ \E outcome \in {"ok", "mkdir", "create"} :
         CASE outcome = "mkdir" ->
                 /\ csvRet' = "failed to create output directory"
                 /\ csvFile' = csvFile
           [] outcome = "create" ->
                 /\ csvRet' = "failed to create CSV output file"
                 /\ csvFile' = csvFile
           [] outcome = "ok" ->
                 /\ csvRet' = "nil"
                 /\ csvFile' =
                      [exists |-> TRUE,
                       rows |->
                         <<CsvHeader>> \o
                         (IF ~csvReport.HasDrift
                             \/ Len(csvReport.DriftDetails) = 0
                          THEN <<SummaryRow(csvReport)>>
                          ELSE [i \in 1..Len(csvReport.DriftDetails) |->
                                  ItemRow(csvReport,
                                          csvReport.DriftDetails[i])])]
    /\ UNCHANGED csvReport
    /\ UNCHANGED restK

\* --------------------------------------------------------------- RawState
\* the top-level keys of a state file: those TerraformState has a field
\* for (without omitempty), in field order, and one it does not know
KnownKeys ==
    <<"version", "terraform_version", "serial", "lineage", "outputs",
      "resources">>

StateFileKeys == {KnownKeys[i] : i \in 1..Len(KnownKeys)} \cup {"custom"}

\* the value a state file gives to a key
FileValue(key) ==
    CASE key = "version" -> "4"
      [] key = "terraform_version" -> "\"1.5.0\""
      [] key = "serial" -> "1"
      [] key = "lineage" -> "\"abc\""
      [] key = "outputs" -> "{}"
      [] key = "resources" -> "[]"
      [] OTHER -> "\"x\""

\* what json.Marshal writes for a field the file did not set
ZeroValue(key) ==
    CASE key \in {"version", "serial"} -> "0"
      [] key \in {"terraform_version", "lineage"} -> "\"\""
      [] OTHER -> "null"

\* JSON bytes of an object: its members in order, each a key and a value,
\* and the whitespace between them (none, or line breaks and indentation)
JsonBytes(members, space) == [members |-> members, space |-> space]

\* the valid state files: every order of every choice of keys, compact or
\* indented
StateFileBytes ==
    {JsonBytes([i \in 1..Len(ks) |-> <<ks[i], FileValue(ks[i])>>], sp) :
        ks \in {s \in UNION {[1..n -> StateFileKeys] :
                               n \in 0..Cardinality(StateFileKeys)} :
                  \A i, j \in 1..Len(s) : i # j => s[i] # s[j]},
        sp \in {"compact", "indented"}}

\* json.Unmarshal(data, &state): the fields of TerraformState whose key is
\* in the data; other keys are dropped
Unmarshal(data) ==
    [key \in {data.members[i][1] : i \in 1..Len(data.members)}
              \cap {KnownKeys[i] : i \in 1..Len(KnownKeys)} |->
        FileValue(key)]

\* json.Marshal(tfState): every field in declaration order, no whitespace
Marshal(tfState) ==
    JsonBytes([i \in 1..Len(KnownKeys) |->
                 <<KnownKeys[i],
                   IF KnownKeys[i] \in DOMAIN tfState
                   THEN tfState[KnownKeys[i]]
                   ELSE ZeroValue(KnownKeys[i])>>],
              "compact")

\* no ParseStateFile call under way
RawIdle ==
    /\ stateFile = JsonBytes(<< >>, "compact")
    /\ rawState = [set |-> FALSE, bytes |-> JsonBytes(<< >>, "compact")]

\* a ParseStateFile call on a valid state file
RawInit ==
    /\ stateFile \in StateFileBytes
    /\ rawState = [set |-> FALSE, bytes |-> JsonBytes(<< >>, "compact")]

\* ParseStateFile as far as RawState goes: ParseBytes unmarshals the file
\* into a TerraformState, ConvertTerraformStateToStateContent marshals that
\* struct into RawState
RawParseStateFile ==
    /\ ~rawState.set
    /\ rawState' = [set |-> TRUE, bytes |-> Marshal(Unmarshal(stateFile))]
    /\ UNCHANGED stateFile
    /\ UNCHANGED restR

\* ------------------------------------------------------- specifications
\* the components that a specification does not exercise
OthersIdle ==
    /\ ManagerNew
    /\ HandleIdle
    /\ EC2Idle
    /\ FileInit
    /\ CsvIdle
    /\ RawIdle

Init == PipelineInit /\ CompareIdle /\ OthersIdle

Next ==
    \/ ParseStateFile
    \/ RetrieveResources
    \/ StartWorkers
    \/ Feed
    \/ Close
    \/ Wait
    \/ Receive
    \/ WorkerExit
    \/ \E r \in ResourceIds : MetadataReturn(r)
    \/ \E r \in ResourceIds : WriteReturn(r)

\* the pipeline
Spec == Init /\ [][Next]_vars

\* the pipeline under a scheduler that runs every goroutine that can run,
\* with provider and reporter calls that return
FairSpec == Spec /\ WF_vars(Next)

\* the pipeline with a caller that may cancel ctx at any moment
CancelNext ==
    \/ Next
    \/ Cancel

CancelSpec == Init /\ [][CancelNext]_vars

\* provider and engine answers that are a function of the resource, for
\* the resources of a list of at most MaxBatch
DetFates ==
    {f \in [ResourceIds -> Fates] :
        \A r \in ResourceIds : f[r] = "any" <=> r > MaxBatch}

\* a run with maxWorker := 1 or maxWorker := 5, and with a deterministic
\* provider and engine
DetInit ==
    /\ RunEntry
    /\ nWorkers \in {1, maxWorker}
    /\ fate \in DetFates
    /\ CompareIdle
    /\ OthersIdle

\* RetrieveResources returning at most MaxBatch resources
RetrieveBatch ==
    /\ RetrieveResources
    /\ Len(resources') <= MaxBatch

DetNext ==
    \/ ParseStateFile
    \/ RetrieveBatch
    \/ StartWorkers
    \/ Feed
    \/ Close
    \/ Wait
    \/ Receive
    \/ WorkerExit
    \/ \E r \in ResourceIds : MetadataReturn(r)
    \/ \E r \in ResourceIds : WriteReturn(r)

DetSpec == DetInit /\ [][DetNext]_vars

CompareNext ==
    \/ CompareStatesEntry
    \/ CompareStatesAttribute
    \/ CompareStatesReturn

\* one call of CompareStates, for every choice of its arguments
CompareStart == PipelineInit /\ CompareInit /\ OthersIdle

CompareSpec == CompareStart /\ [][CompareNext]_vars

\* sequences of calls on one state manager
ManagerNext ==
    \/ ManagerParseStateFile
    \/ ManagerRetrieveResources

ManagerStart ==
    /\ PipelineInit
    /\ CompareIdle
    /\ ManagerNew
    /\ HandleIdle
    /\ EC2Idle
    /\ FileInit
    /\ CsvIdle
    /\ RawIdle

ManagerSpec == ManagerStart /\ [][ManagerNext]_vars

\* one HandleEC2Metadata call, for every DescribeInstances answer
HandleNext == HandleEC2Metadata

HandleStart ==
    /\ PipelineInit
    /\ CompareIdle
    /\ ManagerNew
    /\ HandleInit
    /\ EC2Idle
    /\ FileInit
    /\ CsvIdle
    /\ RawIdle

HandleSpec == HandleStart /\ [][HandleNext]_vars

\* one AttributeValue call on a live EC2 instance
EC2Next == EC2AttributeValueReturn

EC2Start ==
    /\ PipelineInit
    /\ CompareIdle
    /\ ManagerNew
    /\ HandleIdle
    /\ EC2Init
    /\ FileInit
    /\ CsvIdle
    /\ RawIdle

EC2Spec == EC2Start /\ [][EC2Next]_vars

\* sequential WriteReport calls on one FileReporter
FileNext == FileWriteReport

FileStart ==
    /\ PipelineInit
    /\ CompareIdle
    /\ ManagerNew
    /\ HandleIdle
    /\ EC2Idle
    /\ FileInit
    /\ CsvIdle
    /\ RawIdle

FileSpec == FileStart /\ [][FileNext]_vars

\* one WriteReport call on a CsvReporter
CsvNext == CsvWriteReport

CsvStart ==
    /\ PipelineInit
    /\ CompareIdle
    /\ ManagerNew
    /\ HandleIdle
    /\ EC2Idle
    /\ FileInit
    /\ CsvInit
    /\ RawIdle

CsvSpec == CsvStart /\ [][CsvNext]_vars

\* one ParseStateFile call, for every valid state file
RawNext == RawParseStateFile

RawStart ==
    /\ PipelineInit
    /\ CompareIdle
    /\ ManagerNew
    /\ HandleIdle
    /\ EC2Idle
    /\ FileInit
    /\ CsvIdle
    /\ RawInit

RawSpec == RawStart /\ [][RawNext]_vars

\* ------------------------------------------------------------ properties
Fed == 1..Len(resources)

\* C1 as stated: RunDriftDetection returns nil if and only if parsing
\* succeeded
C1_NilIffParsed ==
    pc = "done" => (ret = "nil" <=> parsed)

\* C1 amended: RunDriftDetection returns nil if and only if ParseStateFile
\* and RetrieveResources both succeeded, whatever the provider, comparison
\* and report-write calls return; it returns an error otherwise
C1_NilIffParsedAndRetrieved ==
    pc = "done" => /\ ret \in {"nil", "err"}
                   /\ ret = "nil" <=> (parsed /\ retrieved)

\* RunDriftDetection has returned nil although no resource got a report:
\* provider and comparison calls failed
C1_Witness ==
    /\ pc = "done"
    /\ ret = "nil"
    /\ Len(resources) > 1
    /\ \A r \in Fed : metaRes[r] = "err" \/ cmpRes[r] = "err"
    /\ \E r \in Fed : metaRes[r] = "err"
    /\ \E r \in Fed : cmpRes[r] = "err"

\* C2: WriteReport is invoked at most once per resource and only for a
\* resource whose metadata fetch and comparison both succeeded; when
\* RunDriftDetection has returned, it has been invoked and has returned
\* exactly once for each such resource, hence exactly N times when nothing
\* failed
C2_WriteOncePerComparedResource ==
    /\ \A r \in ResourceIds :
         /\ writeCalls[r] <= 1
         /\ writeRets[r] <= writeCalls[r]
         /\ writeCalls[r] = 1 =>
              r \in Fed /\ metaRes[r] = "ok" /\ cmpRes[r] = "ok"
    /\ (pc = "done" /\ ret = "nil") =>
         \A r \in Fed :
            LET expected == IF metaRes[r] = "ok" /\ cmpRes[r] = "ok"
                            THEN 1 ELSE 0
            IN writeCalls[r] = expected /\ writeRets[r] = expected

\* a batch longer than the channel on which nothing failed: one returned
\* WriteReport per resource
C2_Witness ==
    /\ pc = "done"
    /\ Len(resources) > maxWorker
    /\ \A r \in Fed : writeRets[r] = 1

\* C3: no resource is passed to InfrastructreMetadata twice, and when
\* RunDriftDetection has returned every resource of the list has been
\* passed to it exactly once, whatever the calls for other resources
\* returned
C3_EveryResourceFetchedOnce ==
    /\ \A r \in ResourceIds :
         metaCalls[r] <= 1 /\ (metaCalls[r] = 1 => r \in Fed)
    /\ pc = "done" => \A r \in Fed : metaCalls[r] = 1

\* the first resource failed at the provider, the second in the comparison,
\* and the last one of a long batch was still fetched and reported
C3_Witness ==
    /\ pc = "done"
    /\ Len(resources) > maxWorker
    /\ metaRes[1] = "err"
    /\ cmpRes[2] = "err"
    /\ metaCalls[Len(resources)] = 1
    /\ writeRets[Len(resources)] = 1

\* C4: RunDriftDetection eventually returns; the channel is closed only
\* after the last enqueue, and at the return every worker has exited and
\* the channel is drained
C4_Terminates ==
    /\ <>(pc = "done")
    /\ [](closed => next > Len(resources))
    /\ []((pc = "done" /\ Len(resources) > 0) =>
            wg = 0 /\ receiving = 0 /\ channel = << >> /\ closed
            /\ \A r \in ResourceIds : holding[r] = "no")

\* RunDriftDetection has returned from a batch longer than the channel
C4_Witness ==
    /\ pc = "done"
    /\ ret = "nil"
    /\ Len(resources) > maxWorker
    /\ next = Len(resources) + 1
    /\ wg = 0

\* C5: a resource for which InfrastructreMetadata returned an error is
\* passed neither to CompareStates nor to WriteReport
C5_NoReportAfterProviderError ==
    \A r \in ResourceIds :
       metaRes[r] = "err" =>
          cmpCalls[r] = 0 /\ writeCalls[r] = 0 /\ writeRets[r] = 0

\* a provider error on one resource, a written report for another
C5_Witness ==
    /\ pc = "done"
    /\ \E r \in Fed : metaRes[r] = "err" /\ metaCalls[r] = 1
    /\ \E r \in Fed : writeRets[r] = 1

Details == out.DriftDetails

C7_StatusDriftIffSomeItemDrifts ==
    (cpc = "returned" /\ errOut = "nil" /\ ~liveState.nil) =>
       out.Status = IF \E i \in 1..Len(Details) : Details[i].DriftType # Match
                    THEN Drift ELSE Match

\* a DRIFT report with a MATCH item followed by a VALUE_CHANGED item
C7_Witness ==
    /\ cpc = "returned"
    /\ out.Status = Drift
    /\ Len(Details) = 2
    /\ Details[1].DriftType = Match
    /\ Details[2].DriftType = AttributeValueChanged

\* the classification C8 states, case by case
C8_Classification(desiredVal, liveVal) ==
    CASE desiredVal = "" /\ liveVal = "" -> Match
      [] desiredVal = "" /\ liveVal # "" -> AttributeMissingInTerraform
      [] desiredVal # "" /\ liveVal = "" -> AttributeMissingInInfrastructure
      [] desiredVal # "" /\ liveVal # "" /\ desiredVal # liveVal ->
            AttributeValueChanged
      [] desiredVal # "" /\ liveVal # "" /\ desiredVal = liveVal -> Match

\* C8: every emitted item carries the two fetched values of its field and
\* the one classification these two values determine
C8_ItemClassification ==
    \A i \in 1..Len(Details) :
       LET item == Details[i] IN
       /\ item.TerraformValue = AttributeValue(desiredState, item.Field).val
       /\ item.ActualValue = LiveAttributeValue(liveState, item.Field).val
       /\ item.DriftType =
             C8_Classification(item.TerraformValue, item.ActualValue)

\* a report with a MISSING_IN_TERRAFORM and a MISSING_IN_INFRASTRUCTURE item
C8_Witness ==
    /\ cpc = "returned"
    /\ Len(Details) = 2
    /\ Details[1].DriftType = AttributeMissingInTerraform
    /\ Details[1].TerraformValue = ""
    /\ Details[2].DriftType = AttributeMissingInInfrastructure
    /\ Details[2].ActualValue = ""

\* the lookup of attribute a fails on the live or on the desired side
LookupFails(a) ==
    \/ LiveAttributeValue(liveState, a).err
    \/ AttributeValue(desiredState, a).err

C10_NilLiveIsMissingInInfrastructure ==
    (cpc = "returned" /\ liveState.nil) =>
       /\ errOut = "nil"
       /\ out.Status = ResourceMissingInInfrastructure
       /\ out.HasDrift
       /\ Details = << >>

\* CompareStates has returned for a nil live resource and tracked attributes
C10_Witness ==
    /\ cpc = "returned"
    /\ liveState.nil
    /\ Len(attributesToTrack) > 0
    /\ out.Status = ResourceMissingInInfrastructure

\* the types of the two arguments differ
TypeMismatch ==
    ~liveState.nil /\ liveState.type # ResourceType(desiredState)

C12_ReportCarriesIdentity ==
    (cpc = "returned" /\ errOut = "nil") =>
       /\ out.ResourceType = ResourceType(desiredState)
       /\ out.ResourceName = desiredState.Name
       /\ out.ResourceId = AttributeValue(desiredState, "id").val

\* C13: DriftDetails lists tracked attributes in the order of
\* attributesToTrack, at most one item per position, so it is never longer
\* than attributesToTrack; when no lookup fails it has one item per position
C13_DetailsFollowTrackedOrder ==
    /\ Len(Details) <= Len(attributesToTrack)
    /\ \E f \in [1..Len(Details) -> 1..Len(attributesToTrack)] :
         /\ \A i, j \in 1..Len(Details) : i < j => f[i] < f[j]
         /\ \A i \in 1..Len(Details) :
               Details[i].Field = attributesToTrack[f[i]]
    /\ (cpc = "returned" /\ errOut = "nil" /\ ~liveState.nil
        /\ \A i \in 1..Len(attributesToTrack) :
              ~LookupFails(attributesToTrack[i]))
       => /\ Len(Details) = Len(attributesToTrack)
          /\ \A i \in 1..Len(Details) :
                Details[i].Field = attributesToTrack[i]

\* two different attributes were tracked, no lookup failed, and the items
\* come in the order of the tracked attributes
C13_Witness ==
    /\ cpc = "returned"
    /\ Len(attributesToTrack) = 2
    /\ attributesToTrack[1] # attributesToTrack[2]
    /\ Len(Details) = 2
    /\ Details[1].Field = attributesToTrack[1]
    /\ Details[2].Field = attributesToTrack[2]

\* attribute a is not a key of the first instance of the desired resource
AbsentInDesired(a) ==
    /\ Len(desiredState.Instances) > 0
    /\ a \notin DOMAIN desiredState.Instances[1].Attributes

InFlight == {r \in ResourceIds : holding[r] # "no"}

\* the InfrastructreMetadata calls in progress
InMetadata == {r \in ResourceIds : holding[r] = "meta"}

\* C14: with a deterministic provider and engine the reports written by a
\* finished run are a function of the inputs alone: exactly one report for
\* each resource of the list that the provider and the engine accept, none
\* for the others; the run with 1 worker and the run with 5 workers
\* therefore write the same multiset of reports
C14_SameReportsForOneAndFiveWorkers ==
    (pc = "done" /\ retrieved) =>
       /\ writeCalls = [r \in ResourceIds |->
                          IF r \in Fed /\ fate[r] = "ok" THEN 1 ELSE 0]
       /\ writeRets = writeCalls

\* a run with one worker has finished a list of MaxBatch resources, one of
\* them refused by the provider and one written
C14_Witness ==
    /\ pc = "done"
    /\ nWorkers = 1
    /\ Len(resources) = MaxBatch
    /\ \E r \in Fed : fate[r] = "metaErr" /\ writeCalls[r] = 0
    /\ \E r \in Fed : fate[r] = "ok" /\ writeRets[r] = 1

\* C15: once ctx is cancelled no worker starts a provider call for a
\* resource that is still queued
C15_NoProviderCallAfterCancel ==
    [][cancelled => metaCalls' = metaCalls]_vars

\* C16: at most 5 InfrastructreMetadata calls are in progress, every live
\* worker is either at the receive or holds exactly one resource, and a
\* resource is taken only by a worker at the receive, which then is no
\* longer at the receive until that resource's processing has ended
C16_AtMostFiveCallsOneResourcePerWorker ==
    /\ [](/\ Cardinality(InMetadata) <= maxWorker
          /\ Cardinality(InFlight) + receiving = wg
          /\ wg <= maxWorker)
    /\ [][\A r \in ResourceIds :
            (holding[r] = "no" /\ holding'[r] # "no") =>
               /\ receiving > 0
               /\ receiving' = receiving - 1
               /\ \A q \in ResourceIds \ {r} : holding'[q] = holding[q]]_vars

\* five provider calls are in progress while a sixth resource is queued
C16_Witness ==
    /\ Cardinality(InMetadata) = maxWorker
    /\ receiving = 0
    /\ channel # <<>>

\* C17 as stated: while all 5 workers are busy the feeder does not enqueue
C17_FeederBlocksWhenAllWorkersBusy ==
    [][Cardinality(InFlight) = maxWorker => next' = next]_vars

\* C17 amended: the feeder is held back by the channel buffer: it does not
\* enqueue while 5 resources are queued unreceived, so the channel never
\* holds more than 5, and every enqueue finds fewer than 5 queued, whether
\* the workers are busy or not
C17_FeederBlocksWhenChannelFull ==
    /\ [](Len(channel) <= maxWorker)
    /\ [][/\ Len(channel) = maxWorker => next' = next
          /\ next' # next => /\ Len(channel) < maxWorker
                              /\ channel' = Append(channel, resources[next])
         ]_vars

\* the channel holds 5 resources and the feeder has one more to send
C17_Witness ==
    /\ pc = "feed"
    /\ Len(channel) = maxWorker
    /\ next <= Len(resources)

\* C18: after a failed ParseStateFile RunDriftDetection has returned the
\* error, no worker was started and no InfrastructreMetadata, CompareStates
\* or WriteReport call was made
C18_ParseFailureStartsNothing ==
    (pc # "parse" /\ ~parsed) =>
       /\ pc = "done"
       /\ ret = "err"
       /\ wg = 0 /\ receiving = 0 /\ InFlight = {}
       /\ resources = <<>> /\ channel = <<>>
       /\ \A r \in ResourceIds :
             metaCalls[r] = 0 /\ cmpCalls[r] = 0 /\ writeCalls[r] = 0

\* ParseStateFile has failed and RunDriftDetection has returned
C18_Witness ==
    /\ pc = "done"
    /\ ~parsed
    /\ ret = "err"

\* C19: with an empty resource list RunDriftDetection returns nil without
\* any provider, comparison or write call, and emits exactly one log
\* record, at INFO level
C19_EmptyListOneInfoRecord ==
    (pc = "done" /\ retrieved /\ resources = <<>>) =>
       /\ ret = "nil"
       /\ \A r \in ResourceIds :
             metaCalls[r] = 0 /\ cmpCalls[r] = 0 /\ writeCalls[r] = 0
       /\ logs = <<"INFO">>

\* ----------------------------------------- properties (comparison, cont.)
\* the desired resource has no instance
NoInstance == Len(desiredState.Instances) = 0

\* C21 as stated: for a desired resource with zero instances CompareStates
\* returns a report with status MATCH, hasDrift false and no items
C21_NoInstanceIsMatch ==
    (cpc = "returned" /\ NoInstance) =>
       /\ \A a \in AttrNames : AttributeValue(desiredState, a).err
       /\ errOut = "nil"
       /\ out.Status = Match
       /\ ~out.HasDrift
       /\ Details = << >>

\* C21 amended: for a desired resource with zero instances every
\* desired-side lookup fails and the report has no items; when the live
\* resource exists and has the desired resource's type, every tracked
\* attribute is visited and skipped and the report has status MATCH and
\* hasDrift false. A nil live resource still gives
\* MISSING_IN_INFRASTRUCTURE and a type mismatch still gives the error
C21_NoInstanceIsMatchWhenCompared ==
    (cpc = "returned" /\ NoInstance) =>
       /\ \A a \in AttrNames : AttributeValue(desiredState, a).err
       /\ Details = << >>
       /\ (~liveState.nil /\ ~TypeMismatch) =>
             /\ errOut = "nil"
             /\ idx = Len(attributesToTrack) + 1
             /\ out.Status = Match
             /\ ~out.HasDrift
       /\ liveState.nil =>
             out.Status = ResourceMissingInInfrastructure /\ out.HasDrift
       /\ TypeMismatch => errOut = "resource type mismatch"

\* two attributes that the live resource has were tracked against a
\* desired resource without instances
C21_Witness ==
    /\ cpc = "returned"
    /\ NoInstance
    /\ ~liveState.nil /\ ~TypeMismatch
    /\ Len(attributesToTrack) = 2
    /\ \A i \in 1..2 :
          LET live == LiveAttributeValue(liveState, attributesToTrack[i])
          IN ~live.err /\ live.val # ""
    /\ out.Status = Match

\* C22: during the loop overallDrift is MATCH or DRIFT, it never goes from
\* DRIFT back to MATCH, and the returned status is its last value
C22_OverallDriftMonotone ==
    /\ [](cpc = "loop" => overallDrift \in {Match, Drift})
    /\ [][(cpc = "loop" /\ overallDrift = Drift) => overallDrift' = Drift]_vars
    /\ []((cpc = "returned" /\ errOut = "nil" /\ ~liveState.nil) =>
            out.Status = overallDrift)

\* a drifting attribute was followed by a matching one and the status
\* stayed DRIFT
C22_Witness ==
    /\ cpc = "returned"
    /\ Len(Details) = 2
    /\ Details[1].DriftType # Match
    /\ Details[2].DriftType = Match
    /\ out.Status = Drift

\* ------------------------------------------------ properties (components)
\* C23: RetrieveResources(content, resourceType) returns exactly the
\* resources of the given content that have the given type, in their
\* order, whatever ParseStateFile calls the manager has seen before
C23_RetrieveDependsOnContentOnly ==
    retrieval.called =>
       retrieval.resources =
          SelectSeq(heldContent.content.Resource,
                    LAMBDA res : res.Type = retrieval.resourceType)

\* the instances of all reservations of the DescribeInstances answer
Matches ==
    LET RECURSIVE Count(_)
        Count(i) == IF i = 0 THEN 0
                    ELSE Len(describeOutput.Reservations[i]) + Count(i - 1)
    IN Count(Len(describeOutput.Reservations))

\* C24: HandleEC2Metadata returns a live resource only for exactly one
\* reservation with exactly one instance; zero matches give the not-found
\* error, more than one match gives the ambiguous-match error, and in both
\* cases no live resource is returned
C24_OneReservationOneInstance ==
    (~describeOutput.err /\ (ec2Result.returned \/ ec2Result.panicked)) =>
       /\ ec2Result.instance # "nil" =>
             /\ Len(describeOutput.Reservations) = 1
             /\ Len(describeOutput.Reservations[1]) = 1
       /\ Matches = 0 =>
             /\ ec2Result.returned
             /\ ec2Result.err = "EC2 resource with filters is not running"
             /\ ec2Result.instance = "nil"
       /\ Matches > 1 =>
             /\ ec2Result.returned
             /\ ec2Result.err =
                   "EC2 resource with id  returns duplicate result"
             /\ ec2Result.instance = "nil"

\* C25: AttributeValue on a live EC2 instance answers every documented
\* attribute name without error, and rejects exactly the security-group
\* names and the names outside the documented set
C25_DocumentedAttributesSupported ==
    ec2Answer.called =>
       /\ ec2Attribute \in DocumentedAttributes => ~ec2Answer.err
       /\ ec2Attribute \in SecurityGroupAttributes => ec2Answer.err
       /\ (ec2Attribute \notin DocumentedAttributes
           /\ ~HasTagsPrefix(ec2Attribute)) => ec2Answer.err

\* C26: after a successful WriteReport the file holds exactly the
\* two-space-indented JSON of the report just written, whatever was
\* written before; so after k sequential writes only the last report
\* remains
C26_FileHoldsLastReportOnly ==
    (lastWrite.made /\ lastWrite.ok) =>
       /\ file.exists
       /\ file.data = MarshalIndent(lastWrite.report)
       /\ \A i \in 1..Len(file.data) : file.data[i].indent % 2 = 0

\* the third write succeeded on a file that held a longer, different report
C26_Witness ==
    /\ nWrites = MaxWrites
    /\ lastWrite.ok
    /\ prevWrite.ok
    /\ prevWrite.report # lastWrite.report
    /\ Len(MarshalIndent(prevWrite.report)) > Len(file.data)
    /\ file.data = MarshalIndent(lastWrite.report)

\* the data rows of the CSV file, after the header
DataRows == Tail(csvFile.rows)

\* one row per DriftItem of the report, in order
OneRowPerItem ==
    /\ Len(DataRows) = Len(csvReport.DriftDetails)
    /\ \A i \in 1..Len(DataRows) :
          DataRows[i] = ItemRow(csvReport, csvReport.DriftDetails[i])

\* C27 as stated: the header, then one row per DriftItem; the single
\* summary row only when the report has no items
C27_SummaryRowOnlyWithoutItems ==
    csvRet = "nil" =>
       /\ csvFile.rows # << >> /\ Head(csvFile.rows) = CsvHeader
       /\ IF Len(csvReport.DriftDetails) = 0
          THEN DataRows = <<SummaryRow(csvReport)>>
          ELSE OneRowPerItem

\* C27 amended: the header, then the single summary row when the report
\* has hasDrift false or has no items (the items of a report without drift
\* are not written), and otherwise one row per DriftItem, in order
C27_SummaryRowWithoutDriftOrItems ==
    csvRet = "nil" =>
       /\ csvFile.rows # << >> /\ Head(csvFile.rows) = CsvHeader
       /\ IF ~csvReport.HasDrift \/ Len(csvReport.DriftDetails) = 0
          THEN DataRows = <<SummaryRow(csvReport)>>
          ELSE OneRowPerItem

\* a report without drift that has two items was written as one summary row
C27_Witness ==
    /\ csvRet = "nil"
    /\ ~csvReport.HasDrift
    /\ Len(csvReport.DriftDetails) = 2
    /\ DataRows = <<SummaryRow(csvReport)>>

\* C28: the RawState of the content ParseStateFile returns is byte for
\* byte the content of the state file, unknown keys included
C28_RawStateIsFileContent ==
    rawState.set => rawState.bytes = stateFile

\* ------------------------------------------ properties (pipeline, cont.)
\* the WriteReport calls in progress
InWrite == {r \in ResourceIds : holding[r] = "write"}

\* C29: no two WriteReport calls on the shared reporter are in progress at
\* the same time
C29_WritesSerialized ==
    Cardinality(InWrite) <= 1

====
